---------------------------- MODULE Spec2Model ----------------------------
(***************************************************************************)
(* Model of the retrieval core of positron-docs:                           *)
(*   - DocumentProcessor._chunk_text   (backend/document_processor.py)     *)
(*   - ChatEngine.chat_with_context    (backend/llm.py)                    *)
(*   - VectorStore.add_documents, search, delete_document, get_stats     *)
(*                                       (backend/vector_store.py)         *)
(*   - OllamaEmbeddings.embed_batch, OpenAIEmbeddings.embed_batch         *)
(*                                       (backend/embeddings.py)           *)
(*   - upload_document, ingest_url, delete_document          (app.py)      *)
(*                                                                         *)
(* Strings are sequences of one-character strings.  Offsets into a string  *)
(* are 0-based, as in the Python source: the character at offset i of s    *)
(* is s[i + 1].                                                            *)
(***************************************************************************)
EXTENDS Integers, Sequences, FiniteSets, TLC

VARIABLES
    \* ---- DocumentProcessor._chunk_text ----
    input,        \* the argument `text` as passed by the caller
    chunk_size,   \* self.chunk_size
    overlap,      \* self.overlap
    text,         \* the local `text` after cleaning (line 219)
    start,        \* the local `start`
    iteration,    \* the local `iteration`
    end,          \* the local `end` of the current pass
    chunks,       \* the local list `chunks`; the return value once pc = "done"
    spans,        \* history: for each element of chunks, the offsets
                  \* [lo, hi) of text it was taken from
    pc,           \* position inside _chunk_text ("idle": not called)
    \* ---- VectorStore and ChatEngine ----
    collection,   \* the entries of the Chroma collection, in insertion order
    ledger,       \* history: for each document id, what the store calls
                  \* completed so far have done with it
    store_call,   \* the last call made directly on the VectorStore, with
                  \* its arguments and its outcome
    chat_args,    \* the arguments of the last chat_with_context call
    chat_index,   \* history: the collection as that call found it
    calls,        \* the calls the last chat_with_context made on the vector
                  \* store and on the generation provider, in order, each
                  \* with its outcome
    chat_result,  \* outcome of the last chat_with_context call
    \* ---- VectorStore calls of requests served side by side ----
    base,         \* history: the collection before the first of them
    threads,      \* for each request: the call it makes and how far it got
    \* ---- the request handlers of app.py and the Document table ----
    documents,    \* the ids of the committed Document records
    request,      \* the request served last: its handler, the record it
                  \* created or addressed, the step that failed, its answer
    \* ---- EmbeddingProvider.embed_batch ----
    embed_call    \* the last embed_batch call: provider, texts, the requests
                  \* it sent in order, its outcome

chunkVars == <<input, chunk_size, overlap, text, start, iteration, end,
               chunks, spans, pc>>

chatVars == <<collection, ledger, store_call, chat_args, chat_index, calls,
              chat_result, base, threads>>

appVars == <<documents, request, embed_call>>

vars == <<chunkVars, chatVars, appVars>>

-----------------------------------------------------------------------------
(* Program constants                                                       *)

\* `if iteration > 1000` (the safety break of the window loop)
MaxIterations == 1000

\* `len(chunk) > 10` (only substantial chunks are added)
MinChunkLen == 10

\* DocumentProcessor.__init__ defaults
DefaultChunkSize == 1000
DefaultOverlap == 200

\* the characters \s matches among the ones the model uses
Whitespace == {" ", "\n", "\t"}

\* `for sep in ['. ', '! ', '? ', '\n']`
Separators == << <<".", " ">>, <<"!", " ">>, <<"?", " ">>, <<"\n">> >>

-----------------------------------------------------------------------------
(* String helpers (Python semantics)                                       *)

Min(a, b) == IF a <= b THEN a ELSE b
Max(a, b) == IF a >= b THEN a ELSE b

\* s[a:b] for 0 <= a, 0 <= b: the end is clipped to len(s)
Slice(s, a, b) == SubSeq(s, a + 1, Min(b, Len(s)))

\* number of leading whitespace characters of s
RECURSIVE LeadingWs(_)
LeadingWs(s) ==
    IF s = <<>> \/ s[1] \notin Whitespace THEN 0
    ELSE 1 + LeadingWs(Tail(s))

\* number of trailing whitespace characters of s
RECURSIVE TrailingWs(_)
TrailingWs(s) ==
    IF s = <<>> \/ s[Len(s)] \notin Whitespace THEN 0
    ELSE 1 + TrailingWs(SubSeq(s, 1, Len(s) - 1))

\* a variant of Strip that trims the left end only
StripLeft(s) == SubSeq(s, LeadingWs(s) + 1, Len(s))

\* str.strip()
Strip(s) ==
    LET l == LeadingWs(s)
    IN  IF l = Len(s) THEN <<>>
        ELSE SubSeq(s, l + 1, Len(s) - TrailingWs(s))

\* re.sub(r'\s+', ' ', s): every maximal run of whitespace becomes one space
\* (the first character of the run is kept, as a space; the rest are dropped)
CollapseWs(s) ==
    LET RunHead(i) == s[i] \notin Whitespace \/ i = 1 \/ s[i - 1] \notin Whitespace
        k == SelectSeq([i \in 1..Len(s) |-> i], RunHead)
    IN  [j \in 1..Len(k) |-> IF s[k[j]] \in Whitespace THEN " " ELSE s[k[j]]]

\* a variant of CleanText that forgets the .strip()
CleanTextNoStrip(s) == CollapseWs(s)

\* re.sub(r'\s+', ' ', text).strip()
CleanText(s) == Strip(CollapseWs(s))

\* sep occurs in s at offset p
OccursAt(s, sep, p) ==
    /\ p >= 0
    /\ p + Len(sep) <= Len(s)
    /\ \A k \in 1..Len(sep) : s[p + k] = sep[k]

\* str.rfind(sep, lo, hi) for 0 <= lo, hi <= len(s): the highest offset p with
\* lo <= p and p + len(sep) <= hi at which sep occurs, else -1
RFind(s, sep, lo, hi) ==
    LET found == {p \in lo..(hi - Len(sep)) : OccursAt(s, sep, p)}
    IN  IF found = {} THEN -1
        ELSE CHOOSE p \in found : \A q \in found : q <= p

-----------------------------------------------------------------------------
(* DocumentProcessor._chunk_text: the pure pieces of one loop pass         *)

\* a variant of SentenceCut that cuts after the occurrence closest to the
\* candidate end, whatever separator it is
ClosestCut(s, st, e, i) ==
    LET cuts == {RFind(s, Separators[j], st, e) + Len(Separators[j]) :
                    j \in {k \in i..Len(Separators) :
                               RFind(s, Separators[k], st, e) # -1}}
    IN  IF cuts = {} THEN e ELSE CHOOSE c \in cuts : \A d \in cuts : d <= c

\* the `for sep in [...]` loop (lines 244-248), entered at separator i with
\* the candidate end e: the first separator that rfind locates in
\* text[start:end] decides the cut, placed right after that occurrence
RECURSIVE SentenceCut(_, _, _, _)
SentenceCut(s, st, e, i) ==
    IF i > Len(Separators) THEN e
    ELSE LET sep == Separators[i]
             last_sep == RFind(s, sep, st, e)
         IN  IF last_sep # -1 THEN last_sep + Len(sep)
             ELSE SentenceCut(s, st, e, i + 1)

\* lines 239-248: the end of the window that starts at st
WindowEnd(s, st, cs) ==
    LET e == st + cs
    IN  IF e < Len(s) THEN SentenceCut(s, st, e, 1) ELSE e

\* a variant of KeepChunk without the length test
KeepNonEmpty(chunk) == chunk # <<>>

\* line 251: `if chunk and len(chunk) > 10`
KeepChunk(chunk) == chunk # <<>> /\ Len(chunk) > MinChunkLen

\* a variant of NextStart without the forced step
NextStartUnforced(s, st, e, ov) == IF e < Len(s) THEN e - ov ELSE e

\* a variant of NextStart that adds the overlap instead of subtracting it
NextStartPlus(s, st, e, ov) ==
    LET new_start == IF e < Len(s) THEN e + ov ELSE e
    IN  IF new_start <= st THEN st + 1 ELSE new_start

\* lines 255-257: the start of the next window
NextStart(s, st, e, ov) ==
    LET new_start == IF e < Len(s) THEN e - ov ELSE e
    IN  IF new_start <= st THEN st + 1 ELSE new_start

\* a variant of CapReached that never breaks
CapNever(it) == FALSE

\* line 232: the safety break
CapReached(it) == it > MaxIterations

-----------------------------------------------------------------------------
(* Inputs of _chunk_text                                                   *)

\* bounds of the input families
MaxShortLen == 3
MaxSmallChunk == 2
MaxSmallOverlap == 1
MaxTokens == 4
ChunkSpread == 1
CapTail == 2
MaxSparseOverlap == 13

Repeat(c, n) == [i \in 1..n |-> c]

RECURSIVE Flatten(_)
Flatten(ts) == IF ts = <<>> THEN <<>> ELSE Head(ts) \o Flatten(Tail(ts))

\* raw texts of up to MaxShortLen characters, whitespace of every kind
ShortAlphabet == {"a", ".", " ", "\n", "\t"}
ShortTexts == UNION {[1..n -> ShortAlphabet] : n \in 0..MaxShortLen}

\* texts made of words and sentence ends
Word == <<"a", "b", "c", "d", "e">>
Tokens == {Word, <<".", " ">>, <<"!", " ">>, <<"?", " ">>, <<"\n">>}
TokenTexts == {Flatten(ts) : ts \in UNION {[1..n -> Tokens] : n \in 1..MaxTokens}}

SmallConfigs ==
    {[chunk_size |-> c, overlap |-> o] :
        c \in 1..MaxSmallChunk, o \in 0..MaxSmallOverlap}

MidChunkSizes == (MinChunkLen + 1)..(MinChunkLen + 1 + ChunkSpread)
MidConfigs ==
    UNION {{[chunk_size |-> c, overlap |-> o] :
               o \in (0..MaxSmallOverlap) \cup {c - 1, c, c + 1}} :
           c \in MidChunkSizes}

DefaultConfig == [chunk_size |-> DefaultChunkSize, overlap |-> DefaultOverlap]

\* long unbroken texts: the 1500-character example under the default
\* configuration, and texts that need more than MaxIterations passes
LongInputs ==
    {[text |-> Repeat("a", DefaultChunkSize + 500), cfg |-> DefaultConfig],
     [text |-> Repeat("a", MaxIterations + CapTail),
      cfg |-> [chunk_size |-> 1, overlap |-> 0]]}

\* texts with sparse sentence ends: one sentence, then a run of more than
\* chunk_size characters without a sentence end; under overlaps of 2 and of
\* more than MinChunkLen characters, and under the default configuration
SparseChunkSize == 3 * MinChunkLen
SparseSentences ==
    {Word \o Word \o Word, Word \o <<" ">> \o Word \o Word}
SparseTexts ==
    {t \o <<".", " ">> \o Repeat("b", SparseChunkSize + 1) :
        t \in SparseSentences}
SparseConfigs ==
    {[chunk_size |-> SparseChunkSize, overlap |-> o] :
        o \in {2} \cup ((MinChunkLen + 1)..MaxSparseOverlap)}
SparseInputs ==
    {[text |-> t, cfg |-> c] : t \in SparseTexts, c \in SparseConfigs}
    \cup {[text |-> Repeat("a", DefaultOverlap + MinChunkLen) \o <<".", " ">>
                     \o Repeat("b", DefaultChunkSize),
            cfg |-> DefaultConfig]}

ChunkInputs ==
    {[text |-> t, cfg |-> c] : t \in ShortTexts, c \in SmallConfigs \cup {DefaultConfig}}
    \cup {[text |-> t, cfg |-> c] : t \in TokenTexts, c \in MidConfigs}
    \cup LongInputs
    \cup SparseInputs

-----------------------------------------------------------------------------
(* The vector store and the chat engine before any request                 *)

\* bounds of the store and of the requests
MaxDocs == 2
MaxTopK == 2
MaxThreads == 3

\* the ids of the Document records (doc.id); 7 is the document of the
\* example "7_0", "7_1", "7_2"
DocIds == (8 - MaxDocs)..7

\* the requests served side by side
Threads == 1..MaxThreads

\* an outcome record of a call that has not been made
NoCall == [status |-> "none"]

\* a document id no store call has touched
Untouched == [status |-> "absent", n |-> 0]

\* a request that has not called the store
IdleThread == [pc |-> "idle"]

\* VectorStore.__init__ on a fresh persist directory and init_db
\* on a fresh database: an empty collection and an empty Document table
StoreInit ==
    /\ collection = <<>>
    /\ ledger = [d \in DocIds |-> Untouched]
    /\ store_call = NoCall
    /\ chat_args = NoCall
    /\ chat_index = <<>>
    /\ calls = <<>>
    /\ chat_result = NoCall
    /\ base = <<>>
    /\ threads = [t \in Threads |-> IdleThread]
    /\ documents = {}
    /\ request = NoCall
    /\ embed_call = NoCall

-----------------------------------------------------------------------------
(* DocumentProcessor._chunk_text as a state machine                        *)

ChunkInit ==
    /\ \E i \in ChunkInputs :
          /\ input = i.text
          /\ chunk_size = i.cfg.chunk_size
          /\ overlap = i.cfg.overlap
    /\ text = input
    /\ start = 0
    /\ iteration = 0
    /\ end = 0
    /\ chunks = <<>>
    /\ spans = <<>>
    /\ pc = "clean"
    /\ StoreInit

\* lines 219-228: clean the text; a text no longer than chunk_size is
\* returned as a single chunk (or nothing, if it is empty)
Clean ==
    /\ pc = "clean"
    /\ text' = CleanText(text)
    /\ IF Len(text') <= chunk_size
       THEN /\ chunks' = IF text' # <<>> THEN <<text'>> ELSE <<>>
            /\ spans' = IF text' # <<>>
                        THEN <<[lo |-> 0, hi |-> Len(text')]>>
                        ELSE <<>>
            /\ pc' = "done"
       ELSE /\ chunks' = <<>>
            /\ spans' = <<>>
            /\ pc' = "loop"
    /\ UNCHANGED <<input, chunk_size, overlap, start, iteration, end, chatVars, appVars>>

\* lines 230-234: the loop is entered again after iteration > 1000: break,
\* then line 265 returns chunks as it stands
SafetyBreak ==
    /\ pc = "loop"
    /\ start < Len(text)
    /\ CapReached(iteration + 1)
    /\ iteration' = iteration + 1
    /\ pc' = "done"
    /\ UNCHANGED <<input, chunk_size, overlap, text, start, end, chunks, spans, chatVars, appVars>>

\* lines 230-248: the head of a pass: count it and place the window end
PlaceEnd ==
    /\ pc = "loop"
    /\ IF start < Len(text)
       THEN /\ ~CapReached(iteration + 1)
            /\ iteration' = iteration + 1
            /\ end' = WindowEnd(text, start, chunk_size)
            /\ pc' = "emit"
       ELSE /\ pc' = "done"
            /\ UNCHANGED <<iteration, end>>
    /\ UNCHANGED <<input, chunk_size, overlap, text, start, chunks, spans, chatVars, appVars>>

\* lines 250-262: emit the trimmed window if it is substantial, advance
\* start, and leave the loop once start has reached the end of the text
EmitAdvance ==
    /\ pc = "emit"
    /\ LET window == Slice(text, start, end)
           chunk == Strip(window)
           first == start + LeadingWs(window)
       IN  IF KeepChunk(chunk)
           THEN /\ chunks' = Append(chunks, chunk)
                /\ spans' = Append(spans, [lo |-> first, hi |-> first + Len(chunk)])
           ELSE UNCHANGED <<chunks, spans>>
    /\ start' = NextStart(text, start, end, overlap)
    /\ pc' = IF start' >= Len(text) THEN "done" ELSE "loop"
    /\ UNCHANGED <<input, chunk_size, overlap, text, iteration, end, chatVars, appVars>>

ChunkNext == Clean \/ SafetyBreak \/ PlaceEnd \/ EmitAdvance

Init == ChunkInit
Next == ChunkNext
Spec == Init /\ [][Next]_vars

\* _chunk_text runs to completion once called
FairSpec == Spec /\ WF_vars(Next)

TypeOK ==
    /\ pc \in {"idle", "clean", "loop", "emit", "done"}
    /\ start \in Nat /\ iteration \in Nat /\ end \in Nat
    /\ Len(chunks) = Len(spans)

-----------------------------------------------------------------------------
(* Properties of _chunk_text                                               *)

\* _chunk_text has returned (line 224 or line 265); it has no other exit
Returned == pc = "done"

\* the loop was left by the safety break
CapHit == Returned /\ iteration > MaxIterations

\* the text went through the window loop
LoopPath == pc # "clean" /\ Len(text) > chunk_size

\* t contains one of the boundary markers
HasMarker(t) ==
    \E i \in 1..Len(Separators) : \E p \in 0..(Len(t) - 1) :
        OccursAt(t, Separators[i], p)

\* t contains a whitespace character
HasWhitespace(t) == \E k \in 1..Len(t) : t[k] \in Whitespace

\* offset p lies in the span of a returned chunk
InChunk(p) == \E i \in 1..Len(spans) : spans[i].lo <= p /\ p < spans[i].hi

\* ---- C1 ----
\* C1 as stated: the returned sequence is empty or every chunk has at least
\* 11 characters, on the single-chunk return too.
C1_EveryChunkSubstantial ==
    Returned => \A i \in 1..Len(chunks) : Len(chunks[i]) >= 11

\* C1 amended: when the cleaned text is longer than chunk_size every returned
\* chunk has at least 11 characters (or none is returned); a cleaned text no
\* longer than chunk_size is returned whole, whatever its length.
C1_LoopChunksSubstantial ==
    Returned =>
        IF Len(text) > chunk_size
        THEN \A i \in 1..Len(chunks) : Len(chunks[i]) >= 11
        ELSE chunks = (IF text = <<>> THEN <<>> ELSE <<text>>)

\* a run of the loop that returned chunks and discarded a short window
C1_Witness ==
    /\ Returned /\ LoopPath
    /\ Len(chunks) >= 1
    /\ Len(chunks) < iteration

\* ---- C2 ----
\* C2: _chunk_text never returns normally after the safety break with part of
\* the text still unprocessed.
C2_NoSilentTruncation == ~(CapHit /\ start < Len(text))

\* ---- C3 ----
\* an upper bound on the number of steps _chunk_text has left
StepsLeft ==
    CASE pc = "clean" -> 2 * MaxIterations + 2
      [] pc = "loop"  -> 2 * (MaxIterations - iteration) + 1
      [] pc = "emit"  -> 2 * (MaxIterations - iteration) + 2
      [] pc = "done"  -> 0

\* C3: _chunk_text terminates within 1000 loop passes: every step lowers a
\* bound on the steps left that starts at 2 * 1000 + 2 and never goes below 0,
\* no pass is begun after the 1000th, and a step is possible until it returns
\* (Clean is possible whenever pc = "clean").
C3_Terminates ==
    /\ [][StepsLeft' < StepsLeft]_vars
    /\ [](StepsLeft >= 0)
    /\ [](pc = "emit" => iteration <= 1000)
    /\ [](\/ Returned
          \/ pc = "clean"
          \/ ENABLED (SafetyBreak \/ PlaceEnd \/ EmitAdvance))

\* the loop has made its 1000th pass and has returned
C3_Witness == Returned /\ iteration >= 1000

\* ---- C4 ----
\* C4: every loop pass leaves start strictly greater than it found it.
C4_StartIncreases == [][pc = "emit" => start' > start]_vars

\* a pass whose cut was pulled back by a marker, with overlap >= chunk_size,
\* has advanced start by the forced single step
C4_Witness ==
    /\ pc = "loop" /\ iteration >= 2
    /\ overlap >= chunk_size
    /\ start = iteration
    /\ end < (start - 1) + chunk_size

\* ---- C5 ----
\* C5 as stated: for a cleaned text without boundary markers the spans of the
\* returned chunks cover every character offset of the text.
C5_ChunksCoverText ==
    (Returned /\ ~HasMarker(text)) =>
        \A p \in 0..(Len(text) - 1) : InChunk(p)

\* C5 amended, the step: in a text without boundary markers a pass looks at
\* the window from start to end (clipped to the text), the next pass starts
\* at or before the end of that window unless the window reached the end of
\* the text, and the window's trimmed content is appended as a chunk exactly
\* when it is longer than 10 characters.
NoGapStep ==
    (pc = "emit" /\ ~HasMarker(text)) =>
        LET hi == Min(end, Len(text))
            content == Strip(SubSeq(text, start + 1, hi))
        IN  /\ start < hi
            /\ (start' <= hi \/ hi = Len(text))
            /\ IF Len(content) > 10
               THEN chunks' = Append(chunks, content)
               ELSE chunks' = chunks
            /\ (pc' = "done" => hi = Len(text))

\* C5 amended: the windows of the passes leave no gap, the first starts at
\* offset 0 and, unless the safety break ends the loop, the last one reaches
\* the end of the text; so the only characters missing from the chunks are
\* trimmed edge whitespace, windows whose trimmed content has at most 10
\* characters and, after a safety break, the text from offset start on.
C5_WindowsLeaveNoGap ==
    /\ [][NoGapStep]_vars
    /\ []((pc = "loop" /\ iteration = 0) => start = 0)
    /\ []((Returned /\ LoopPath /\ ~CapHit /\ ~HasMarker(text)) =>
             (start >= Len(text) /\ end >= Len(text)))

\* a text without markers went through several passes, one of them discarded
C5_Witness ==
    /\ Returned /\ LoopPath /\ ~HasMarker(text)
    /\ Len(chunks) >= 2
    /\ Len(chunks) < iteration
    /\ \E p \in 0..(Len(text) - 1) : ~InChunk(p)

\* ---- C6 ----
\* the maximal runs of non-whitespace characters of s, in order
Words(s) ==
    LET First(i) == s[i] \notin Whitespace /\ (i = 1 \/ s[i - 1] \in Whitespace)
        Last(i) == s[i] \notin Whitespace /\ (i = Len(s) \/ s[i + 1] \in Whitespace)
        firsts == SelectSeq([i \in 1..Len(s) |-> i], First)
        lasts == SelectSeq([i \in 1..Len(s) |-> i], Last)
    IN  [j \in 1..Len(firsts) |-> SubSeq(s, firsts[j], lasts[j])]

\* t is words separated by single spaces, with no space at either end
SingleSpaced(t) ==
    \A k \in 1..Len(t) :
        t[k] \in Whitespace =>
            /\ t[k] = " "
            /\ 1 < k /\ k < Len(t)
            /\ t[k + 1] \notin Whitespace

\* C6: the cleaned text is the words of the input joined by single spaces;
\* an empty cleaned text returns no chunk and a non-empty one no longer than
\* chunk_size returns itself as the only chunk.
C6_CleanThenShortCut ==
    (pc # "clean" /\ iteration = 0) =>
        /\ SingleSpaced(text)
        /\ Words(text) = Words(input)
        /\ (text = <<>> => Returned /\ chunks = <<>>)
        /\ (text # <<>> /\ Len(text) <= chunk_size =>
               Returned /\ chunks = <<text>>)

\* an input with a run of two whitespace characters between words was
\* returned as one chunk in which the run is a single space
C6_Witness ==
    /\ Returned
    /\ chunks = <<text>>
    /\ Len(Words(text)) >= 2
    /\ \E k \in 2..(Len(input) - 2) :
          /\ input[k - 1] \notin Whitespace
          /\ input[k] \in Whitespace /\ input[k + 1] \in Whitespace
          /\ input[k + 2] \notin Whitespace

\* ---- C7 ----
\* the offsets at which separator number i occurs wholly inside [lo, hi)
Occurrences(i, lo, hi) ==
    {p \in lo..(hi - Len(Separators[i])) : OccursAt(text, Separators[i], p)}

\* C7: in a pass with start + chunk_size < len(text) the cut is right after
\* the rightmost occurrence, inside the window, of the first separator in the
\* order '. ', '! ', '? ', newline that occurs in the window at all; with no
\* separator in the window the cut is start + chunk_size.
C7_CutAfterFirstSeparator ==
    (pc = "emit" /\ start + chunk_size < Len(text)) =>
        LET hi == start + chunk_size
            present == {i \in 1..Len(Separators) : Occurrences(i, start, hi) # {}}
        IN  IF present = {} THEN end = hi
            ELSE \E i \in present :
                    /\ \A j \in present : i <= j
                    /\ \E p \in Occurrences(i, start, hi) :
                          /\ \A q \in Occurrences(i, start, hi) : q <= p
                          /\ end = p + Len(Separators[i])

\* a window holds '. ' and, closer to its end, '! ': the cut follows the '. '
C7_Witness ==
    /\ pc = "emit"
    /\ start + chunk_size < Len(text)
    /\ Occurrences(1, start, start + chunk_size) # {}
    /\ \E q \in Occurrences(2, start, start + chunk_size) :
          /\ \A p \in Occurrences(1, start, start + chunk_size) : p < q
          /\ end < q + 2

\* ---- C8 ----
\* C8: for a cleaned text longer than chunk_size without whitespace or
\* boundary marker, and overlap < chunk_size, pass number i + 1 starts at
\* offset i * (chunk_size - overlap) and the last window ends at len(text).
C8_WindowOffsets ==
    (LoopPath /\ ~HasWhitespace(text) /\ ~HasMarker(text) /\ overlap < chunk_size) =>
        /\ (pc = "emit" => start = (iteration - 1) * (chunk_size - overlap))
        /\ (Returned => Min(end, Len(text)) = Len(text))

\* the example of C8: 1500 'a' under chunk_size 1000 and overlap 200 gives
\* two chunks, the second from offset 800
C8_Example ==
    (Returned /\ input = Repeat("a", 1500) /\ chunk_size = 1000 /\ overlap = 200) =>
        /\ Len(chunks) = 2
        /\ spans[2].lo = 800
        /\ \A i \in 1..2 : Len(chunks[i]) >= 11

\* ---- C26 ----
\* each returned chunk is the part of the cleaned text at its offsets, has no
\* whitespace at either end and at most chunk_size characters
ChunksWellFormed ==
    \A i \in 1..Len(chunks) :
        /\ 0 <= spans[i].lo /\ spans[i].hi <= Len(text)
        /\ chunks[i] = Slice(text, spans[i].lo, spans[i].hi)
        /\ chunks[i] # <<>>
        /\ chunks[i][1] \notin Whitespace
        /\ chunks[i][Len(chunks[i])] \notin Whitespace
        /\ Len(chunks[i]) <= chunk_size

\* C26 as stated: every returned chunk is a contiguous part of the cleaned
\* text without whitespace at its ends and of at most chunk_size characters,
\* and each chunk starts at a higher offset than the one before it.
C26_ChunksOrderedStrictly ==
    Returned =>
        /\ ChunksWellFormed
        /\ \A i \in 2..Len(chunks) : spans[i - 1].lo < spans[i].lo

\* C26 amended: every returned chunk is a contiguous part of the cleaned
\* text without whitespace at its ends and of at most chunk_size characters,
\* and no chunk starts at a lower offset than the one before it; two
\* successive chunks start at the same offset only where a space stands
\* right before that offset (the earlier window began with it).
C26_ChunksOrdered ==
    Returned =>
        /\ ChunksWellFormed
        /\ \A i \in 2..Len(chunks) :
              /\ spans[i - 1].lo <= spans[i].lo
              /\ spans[i - 1].lo = spans[i].lo =>
                    /\ spans[i].lo >= 1
                    /\ text[spans[i].lo] = " "

\* two successive chunks start at the same offset
C26_Witness ==
    /\ Returned
    /\ \E i \in 2..Len(chunks) : spans[i - 1].lo = spans[i].lo

\* ---- C27 ----
\* C27: every returned chunk after the first reaches beyond the end of the
\* chunk returned before it; no chunk lies wholly inside its predecessor.
C27_ChunksReachFurther ==
    Returned => \A i \in 2..Len(chunks) : spans[i - 1].hi < spans[i].hi

-----------------------------------------------------------------------------
(* Python values                                                           *)

\* Optional[str]: None, or a string
None == <<>>
Some(x) == <<x>>

Digits == <<"0", "1", "2", "3", "4", "5", "6", "7", "8", "9">>

\* str(n) / f"{n}" for n >= 0
RECURSIVE IntToStr(_)
IntToStr(n) ==
    IF n < 10 THEN <<Digits[n + 1]>>
    ELSE IntToStr(n \div 10) \o <<Digits[(n % 10) + 1]>>

\* sep.join(parts)
RECURSIVE Join(_, _)
Join(parts, sep) ==
    IF parts = <<>> THEN <<>>
    ELSE IF Len(parts) = 1 THEN parts[1]
    ELSE parts[1] \o sep \o Join(Tail(parts), sep)

\* a call that raised / that returned v
Raised == [status |-> "raised"]
Return(v) == [status |-> "returned", value |-> v]

-----------------------------------------------------------------------------
(* Embedding provider and vector store                                     *)


\* the chunk lists of the uploaded documents and the chat messages
\* `result["content"][:200] + "..."`
SourcePreviewLen == 200

\* a chunk longer than the preview of a source
LongChunk == Repeat("a", SourcePreviewLen) \o <<"b", "c", "d">>

ChunkLists ==
    {<< <<"a", "b", "c">>, <<"d">> >>,
     << <<"d", "e">>, LongChunk, <<"a", "b", "c", "d">> >>}
Messages == {<<"d">>}

\* the answers of the generation provider
Responses == {"answer-1", "answer-2"}

\* EmbeddingProvider.embed_text: the vector the external model gives a text
\* (one fixed vector per text; here its length, folded into 0..7)
Embed(t) == Len(t) % 8

\* the cosine distance Chroma reports between two vectors, in hundredths
\* (0 for equal vectors, at most 2.00)
Distance(u, v) == Min(200, IF u >= v THEN 10 * (u - v) ELSE 10 * (v - u))

\* a variant of ChunkId that leaves the document out of the id
ChunkIdOfOrdinal(doc_id, i) == IntToStr(i)

\* a variant of ChunkId that counts the chunks from 1
ChunkIdFromOne(doc_id, i) == IntToStr(doc_id) \o <<"_">> \o IntToStr(i + 1)

\* f"{doc_id}_{i}"
ChunkId(doc_id, i) == IntToStr(doc_id) \o <<"_">> \o IntToStr(i)

\* process_text: the metadata of each chunk
TextMetadatas(texts, source) ==
    [i \in 1..Len(texts) |-> [source |-> source, type |-> "text"]]

\* `metadata["document_id"] = doc_id`
WithDocumentId(metadata, doc_id) ==
    [k \in DOMAIN metadata \cup {"document_id"} |->
        IF k = "document_id" THEN doc_id ELSE metadata[k]]

\* the entries collection.add stores (lines 38-50)
NewEntries(texts, metadatas, doc_id) ==
    [i \in 1..Len(texts) |->
        [id |-> ChunkId(doc_id, i - 1),
         document |-> texts[i],
         metadata |-> WithDocumentId(metadatas[i], doc_id),
         embedding |-> Embed(texts[i])]]

\* a variant of StoredOnEmbedFailure that has stored the entries of the
\* texts embedded before the failing one
StoredBeforeFailure(texts, metadatas, doc_id, j) ==
    SubSeq(NewEntries(texts, metadatas, doc_id), 1, j - 1)

\* the entries add_documents has stored when embed_text fails on the j-th
\* text: embed_batch (line 38) runs to its end before collection.add
\* (line 45) is reached, so none
StoredOnEmbedFailure(texts, metadatas, doc_id, j) == <<>>

\* the ledger entry of a document after a successful add of n chunks, and
\* after a completed delete
Added(n) == [status |-> "added", n |-> n]
Deleted == [status |-> "deleted", n |-> 0]

\* the requests served one at a time: a call on the store forgets the last
\* chat_with_context call, and the other way round
ForgetChat ==
    /\ chat_args' = NoCall
    /\ chat_index' = <<>>
    /\ calls' = <<>>
    /\ chat_result' = NoCall

\* a variant of Reraise that answers a failure with an empty result
SwallowedAsEmpty(failure) == Return(<<>>)

\* `except Exception as e: logger.error(...); raise` (vector_store.py 53-55,
\* 84-86, 98-100, 110-112): the outcome of the call is the failure of the
\* backend call
Reraise(failure) == failure

\* VectorStore.add_documents(texts, metadatas, doc_id): embed_text fails on
\* one of the texts, or collection.add fails (the store takes a batch whole
\* or not at all), or all entries are stored and their number is returned
AddDocuments(texts, metadatas, doc_id) ==
    LET call(j, outcome) ==
            [op |-> "add_documents", texts |-> texts, metadatas |-> metadatas,
             doc_id |-> doc_id, failed_at |-> j, backend |-> outcome.status,
             outcome |-> IF outcome.status = "raised" THEN Reraise(outcome)
                         ELSE outcome]
    IN  /\ \/ \E j \in 1..Len(texts) :
                /\ collection' = collection \o
                       StoredOnEmbedFailure(texts, metadatas, doc_id, j)
                /\ store_call' = call(j, Raised)
                /\ ledger' = ledger
           \/ /\ collection' = collection
              /\ store_call' = call(0, Raised)
              /\ ledger' = ledger
           \/ /\ collection' = collection \o NewEntries(texts, metadatas, doc_id)
              /\ store_call' = call(0, Return(Len(texts)))
              /\ ledger' = [ledger EXCEPT ![doc_id] = Added(Len(texts))]
        /\ ForgetChat
        /\ UNCHANGED <<base, threads, chunkVars>>

\* a variant of MatchingIds that matches every entry
MatchingAll(entries, doc_id) == [i \in 1..Len(entries) |-> entries[i].id]

\* collection.get(where={"document_id": doc_id})["ids"]
MatchingIds(entries, doc_id) ==
    LET hits == SelectSeq(entries, LAMBDA e : e.metadata.document_id = doc_id)
    IN  [i \in 1..Len(hits) |-> hits[i].id]

\* collection.delete(ids=ids): the entries left
WithoutIds(entries, ids) ==
    SelectSeq(entries, LAMBDA e : \A i \in 1..Len(ids) : ids[i] # e.id)

\* line 96: `if results["ids"]:`
HasIds(ids) == ids # <<>>

\* VectorStore.delete_document(doc_id): collection.get or collection.delete
\* fails and the error is raised again, or the entries whose ids get
\* returned are deleted
DeleteDocument(doc_id) ==
    LET ids == MatchingIds(collection, doc_id)
        call(failed_in, outcome) ==
            [op |-> "delete_document", doc_id |-> doc_id, ids |-> ids,
             failed_in |-> failed_in, backend |-> outcome.status,
             outcome |-> IF outcome.status = "raised" THEN Reraise(outcome)
                         ELSE outcome]
    IN  /\ \/ /\ collection' = collection
              /\ store_call' = call("collection.get", Raised)
              /\ ledger' = ledger
           \/ /\ HasIds(ids)
              /\ collection' = collection
              /\ store_call' = call("collection.delete", Raised)
              /\ ledger' = ledger
           \/ /\ collection' = IF HasIds(ids) THEN WithoutIds(collection, ids)
                                ELSE collection
              /\ store_call' = call("", Return(None))
              /\ ledger' = [ledger EXCEPT ![doc_id] = Deleted]
        /\ ForgetChat
        /\ UNCHANGED <<base, threads, chunkVars>>

\* self.collection_name
CollectionName == "documents"

\* VectorStore.get_stats(): collection.count() fails, or the count is
\* returned with the collection name
GetStats ==
    /\ \E count \in {Raised, Return(Len(collection))} :
          store_call' =
              [op |-> "get_stats", backend |-> count.status,
               outcome |-> IF count.status = "raised" THEN Reraise(count)
                           ELSE Return([total_chunks |-> count.value,
                                        collection_name |-> CollectionName])]
    /\ ForgetChat
    /\ UNCHANGED <<collection, ledger, base, threads, chunkVars, appVars>>

\* the entries of the collection not yet ranked that are nearest to q
Nearest(q, taken) ==
    LET rest == (1..Len(collection)) \ taken
        d(i) == Distance(q, collection[i].embedding)
    IN  {i \in rest : \A j \in rest : d(i) <= d(j)}

\* the rankings of k more entries after those already taken, nearest first
RECURSIVE RankingsAfter(_, _, _)
RankingsAfter(q, k, taken) ==
    IF k = 0 THEN {<<>>}
    ELSE UNION {{<<i>> \o r : r \in RankingsAfter(q, k - 1, taken \cup {i})} :
                   i \in Nearest(q, taken)}

\* collection.query(query_embeddings=[q], n_results=top_k): the positions of
\* the top_k entries nearest to q (all of them if there are fewer), nearest
\* first; entries at equal distance come in any order
Rankings(q, top_k) == RankingsAfter(q, Min(top_k, Len(collection)), {})

\* a variant of FormatResults that gives the distance as the score
FormatResultsRawDistance(q, r) ==
    [i \in 1..Len(r) |->
        [content |-> collection[r[i]].document,
         metadata |-> collection[r[i]].metadata,
         score |-> Distance(q, collection[r[i]].embedding)]]

\* lines 74-81: the formatted results, the score being 1 - distance (in
\* hundredths)
FormatResults(q, r) ==
    [i \in 1..Len(r) |->
        [content |-> collection[r[i]].document,
         metadata |-> collection[r[i]].metadata,
         score |-> 100 - Distance(q, collection[r[i]].embedding)]]

\* lines 65-71: embed_text or collection.query fails, or the query answers
\* with the entries nearest to the query
QueryOutcomes(query, top_k) ==
    {Raised} \cup {Return(r) : r \in Rankings(Embed(query), top_k)}

\* lines 74-86: the failure is raised again, or the formatted results of the
\* query are returned
SearchOutcome(query, backend) ==
    IF backend.status = "raised" THEN Reraise(backend)
    ELSE Return(FormatResults(Embed(query), backend.value))

\* the outcomes of VectorStore.search(query, top_k)
SearchOutcomes(query, top_k) ==
    {SearchOutcome(query, b) : b \in QueryOutcomes(query, top_k)}

\* a call of VectorStore.search as the module records it
SearchCall(query, top_k, backend) ==
    [op |-> "search", query |-> query, top_k |-> top_k,
     backend |-> backend.status, outcome |-> SearchOutcome(query, backend)]

\* the document ids whose delete has completed with no add since
Gone == {d \in DocIds : ledger[d] = Deleted}

\* VectorStore.search(query, top_k) called directly (the search request)
SearchStore(query, top_k) ==
    /\ \E backend \in QueryOutcomes(query, top_k) :
          store_call' = SearchCall(query, top_k, backend)
    /\ ForgetChat
    /\ UNCHANGED <<collection, ledger, base, threads, chunkVars, appVars>>

\* the errors of the generation provider, and a call that raised one
GenerateErrors == {"timeout", "http-status"}
Failed(e) == [status |-> "raised", error |-> e]

\* LLMProvider.generate(prompt, context): the provider fails, or answers
GenerateOutcomes ==
    {Failed(e) : e \in GenerateErrors} \cup {Return(a) : a \in Responses}

-----------------------------------------------------------------------------
(* ChatEngine.chat_with_context                                            *)

\* a variant of SearchesFirst that searches whatever use_context is
SearchesAlways(use_context) == TRUE

\* line 125: `if use_context:`
SearchesFirst(use_context) == use_context

\* a variant of HasResults that builds a context from no results too
HasResultsAlways(search_results) == TRUE

\* line 129: `if search_results:`
HasResults(search_results) == search_results # <<>>

\* a variant of ContextPart that numbers the fragments as enumerate does
ContextPartFromZero(i, result) ==
    <<"[">> \o IntToStr(i) \o <<"]", " ">> \o result.content

\* line 133: f"[{i+1}] {result['content']}", i counted from 0
ContextPart(i, result) ==
    <<"[">> \o IntToStr(i + 1) \o <<"]", " ">> \o result.content

\* a variant of SourceEntry that keeps the whole content
SourceEntryWhole(result) ==
    [content |-> result.content \o <<".", ".", ".">>,
     metadata |-> result.metadata,
     score |-> result.score]

\* lines 134-138: the source entry of a result
SourceEntry(result) ==
    [content |-> SubSeq(result.content, 1, Min(SourcePreviewLen, Len(result.content)))
                    \o <<".", ".", ".">>,
     metadata |-> result.metadata,
     score |-> result.score]

\* lines 123-140: the context handed to generate
BuildContext(search_results) ==
    IF HasResults(search_results)
    THEN Some(Join([i \in 1..Len(search_results) |->
                       ContextPart(i - 1, search_results[i])],
                   <<"\n", "\n">>))
    ELSE None

\* lines 122-138: the sources returned
BuildSources(search_results) ==
    IF HasResults(search_results)
    THEN [i \in 1..Len(search_results) |-> SourceEntry(search_results[i])]
    ELSE <<>>

\* a variant of ChatResult that answers with an empty response when
\* generate fails
ChatResultFallback(answer, sources) ==
    [status |-> "returned",
     response |-> IF answer.status = "raised" THEN "" ELSE answer.value,
     sources |-> sources]

\* lines 143-148: the error of generate goes up to the caller as it is;
\* otherwise its output is returned with the sources
ChatResult(answer, sources) ==
    IF answer.status = "raised" THEN answer
    ELSE [status |-> "returned", response |-> answer.value, sources |-> sources]

\* ChatEngine.chat_with_context(message, use_context, top_k), lines 122-148
ChatWithContext(message, use_context, top_k) ==
    /\ chat_args' = [message |-> message, use_context |-> use_context,
                     top_k |-> top_k]
    /\ chat_index' = collection
    /\ IF SearchesFirst(use_context)
       THEN \E backend \in QueryOutcomes(message, top_k) :
               LET searched == SearchCall(message, top_k, backend)
                   found == searched.outcome
               IN  IF found.status = "raised"
                   THEN /\ calls' = <<searched>>
                        /\ chat_result' = Raised
                   ELSE \E answer \in GenerateOutcomes :
                           /\ calls' = <<searched,
                                         [op |-> "generate", prompt |-> message,
                                          context |-> BuildContext(found.value),
                                          outcome |-> answer]>>
                           /\ chat_result' =
                                 ChatResult(answer, BuildSources(found.value))
       ELSE \E answer \in GenerateOutcomes :
               /\ calls' = <<[op |-> "generate", prompt |-> message,
                              context |-> None, outcome |-> answer]>>
               /\ chat_result' = ChatResult(answer, <<>>)
    /\ store_call' = NoCall
    /\ UNCHANGED <<collection, ledger, base, threads, chunkVars, appVars>>

\* the requests of the service that reach the store and the chat engine
\* a text document is uploaded: its Document record gets an id none of whose
\* chunks are indexed (a new one, or the one a deleted record had) and its
\* chunks go to the store under that id
Ingest ==
    \E doc_id \in DocIds, texts \in ChunkLists :
        /\ MatchingIds(collection, doc_id) = <<>>
        /\ AddDocuments(texts, TextMetadatas(texts, "notes.txt"), doc_id)
        /\ UNCHANGED appVars

\* a document is deleted
Remove == \E doc_id \in DocIds : DeleteDocument(doc_id) /\ UNCHANGED appVars

\* the search request
Search ==
    \E query \in Messages, top_k \in 1..MaxTopK : SearchStore(query, top_k)

\* the statistics request
Stats == GetStats

Chat ==
    \E message \in Messages, use_context \in BOOLEAN, top_k \in 1..MaxTopK :
        ChatWithContext(message, use_context, top_k)

\* _chunk_text is not running
ChunkIdle ==
    /\ input = <<>> /\ text = <<>>
    /\ chunk_size = DefaultChunkSize /\ overlap = DefaultOverlap
    /\ start = 0 /\ iteration = 0 /\ end = 0
    /\ chunks = <<>> /\ spans = <<>>
    /\ pc = "idle"

ChatInit == StoreInit /\ ChunkIdle
ChatNext == Ingest \/ Remove \/ Search \/ Stats \/ Chat
ChatSpec == ChatInit /\ [][ChatNext]_vars

-----------------------------------------------------------------------------
(* VectorStore calls of requests served side by side.  A call is a         *)
(* sequence of calls on the Chroma collection, each of them atomic; the    *)
(* calls of different requests may alternate between two of them.          *)

\* the indexes the requests may find: empty, or one document uploaded
ConcBases ==
    {<<>>} \cup {NewEntries(texts, TextMetadatas(texts, "notes.txt"), doc_id) :
                    texts \in ChunkLists, doc_id \in DocIds}

\* the ledger of an index of at most one document
LedgerOf(entries) ==
    [d \in DocIds |->
        IF MatchingIds(entries, d) = <<>> THEN Untouched
        ELSE Added(Len(MatchingIds(entries, d)))]

ConcInit ==
    /\ ChunkIdle
    /\ \E b \in ConcBases :
          /\ base = b
          /\ collection = b
          /\ ledger = LedgerOf(b)
    /\ store_call = NoCall
    /\ chat_args = NoCall
    /\ chat_index = <<>>
    /\ calls = <<>>
    /\ chat_result = NoCall
    /\ threads = [t \in Threads |-> IdleThread]
    /\ documents = {d \in DocIds : MatchingIds(base, d) # <<>>}
    /\ request = NoCall
    /\ embed_call = NoCall

\* request t has finished its call
Finish(t, call, outcome) ==
    threads' = [threads EXCEPT ![t] =
                   [pc |-> "done", call |-> call, outcome |-> outcome]]

\* add_documents in request t (lines 37-55): embed_batch touches nothing
\* shared, collection.add is one call on the collection
ThreadAdd(t) ==
    /\ threads[t] = IdleThread
    /\ \E doc_id \in DocIds, texts \in ChunkLists :
          LET metadatas == TextMetadatas(texts, "notes.txt")
              call == [op |-> "add_documents", texts |-> texts,
                       metadatas |-> metadatas, doc_id |-> doc_id]
          IN  /\ MatchingIds(collection, doc_id) = <<>>
              /\ \/ /\ collection' = collection
                    /\ ledger' = ledger
                    /\ Finish(t, call, Raised)
                 \/ /\ collection' = collection \o
                                         NewEntries(texts, metadatas, doc_id)
                    /\ ledger' = [ledger EXCEPT ![doc_id] = Added(Len(texts))]
                    /\ Finish(t, call, Return(Len(texts)))
    /\ UNCHANGED <<store_call, chat_args, chat_index, calls, chat_result,
                   base, chunkVars, appVars>>

\* delete_document in request t, lines 92-96: collection.get, and the
\* return when it finds no ids
ThreadGet(t) ==
    /\ threads[t] = IdleThread
    /\ \E doc_id \in DocIds :
          LET ids == MatchingIds(collection, doc_id)
              call == [op |-> "delete_document", doc_id |-> doc_id]
          IN  \/ /\ Finish(t, call, Raised)
                 /\ ledger' = ledger
              \/ /\ HasIds(ids)
                 /\ threads' = [threads EXCEPT ![t] =
                                    [pc |-> "got", call |-> call, ids |-> ids]]
                 /\ ledger' = ledger
              \/ /\ ~HasIds(ids)
                 /\ Finish(t, call, Return(None))
                 /\ ledger' = [ledger EXCEPT ![doc_id] = Deleted]
    /\ UNCHANGED <<collection, store_call, chat_args, chat_index, calls,
                   chat_result, base, chunkVars, appVars>>

\* delete_document in request t, line 97: collection.delete of the ids got
ThreadDelete(t) ==
    /\ threads[t].pc = "got"
    /\ \/ /\ collection' = collection
          /\ ledger' = ledger
          /\ Finish(t, threads[t].call, Raised)
       \/ /\ collection' = WithoutIds(collection, threads[t].ids)
          /\ ledger' = [ledger EXCEPT ![threads[t].call.doc_id] = Deleted]
          /\ Finish(t, threads[t].call, Return(None))
    /\ UNCHANGED <<store_call, chat_args, chat_index, calls, chat_result,
                   base, chunkVars, appVars>>

\* search in request t (lines 65-83): embed_text touches nothing shared,
\* collection.query is one call on the collection
ThreadSearch(t) ==
    /\ threads[t] = IdleThread
    /\ \E query \in Messages, top_k \in 1..MaxTopK :
          \E outcome \in SearchOutcomes(query, top_k) :
              Finish(t, [op |-> "search", query |-> query, top_k |-> top_k],
                     outcome)
    /\ UNCHANGED <<collection, ledger, store_call, chat_args, chat_index,
                   calls, chat_result, base, chunkVars, appVars>>

ConcNext ==
    \E t \in Threads :
        ThreadAdd(t) \/ ThreadGet(t) \/ ThreadDelete(t) \/ ThreadSearch(t)

ConcSpec == ConcInit /\ [][ConcNext]_vars

-----------------------------------------------------------------------------
(* EmbeddingProvider.embed_batch of the two providers.  The environment    *)
(* decides which requests fail; the embeddings API answers a batch with    *)
(* one item per input, in input order.                                     *)

\* bound: the texts of one batch
MaxBatch == 3

\* the texts to embed, with pairwise different embeddings
EmbedTexts == {<<"a">>, <<"a", "b">>, <<"d", "e", "f">>}

\* the batches of at most MaxBatch texts
Batches == UNION {[1..n -> EmbedTexts] : n \in 0..MaxBatch}

\* a variant of OllamaLoop that goes on to the next text after a failed
\* request
RECURSIVE OllamaLoopSkipping(_, _, _, _, _)
OllamaLoopSkipping(texts, failing, i, embeddings, requests) ==
    IF i > Len(texts)
    THEN [requests |-> requests, outcome |-> Return(embeddings)]
    ELSE OllamaLoopSkipping(texts, failing, i + 1,
             IF i \in failing THEN embeddings
             ELSE Append(embeddings, Embed(texts[i])),
             Append(requests, texts[i]))

\* OllamaEmbeddings.embed_batch, lines 36-39, from the i-th text on:
\* `for text in texts: embeddings.append(self.embed_text(text))`; embed_text
\* sends one request and raises again what the request raised (lines 22-33)
RECURSIVE OllamaLoop(_, _, _, _, _)
OllamaLoop(texts, failing, i, embeddings, requests) ==
    IF i > Len(texts)
    THEN [requests |-> requests, outcome |-> Return(embeddings)]
    ELSE IF i \in failing
    THEN [requests |-> Append(requests, texts[i]), outcome |-> Raised]
    ELSE OllamaLoop(texts, failing, i + 1,
                    Append(embeddings, Embed(texts[i])),
                    Append(requests, texts[i]))

\* response.data of client.embeddings.create(model, input=texts)
ResponseData(texts) ==
    [i \in 1..Len(texts) |-> [index |-> i - 1, embedding |-> Embed(texts[i])]]

\* OpenAIEmbeddings.embed_batch, lines 60-68: one request for the whole
\* batch; `[item.embedding for item in response.data]`, or the error of the
\* request raised again
OpenAIBatch(texts, failing) ==
    [requests |-> <<texts>>,
     outcome |-> IF failing # {} THEN Raised
                 ELSE LET data == ResponseData(texts)
                      IN  Return([i \in 1..Len(data) |-> data[i].embedding])]

\* a call of embed_batch as the module records it
EmbedCall(provider, texts, failing, run) ==
    [provider |-> provider, texts |-> texts, failing |-> failing,
     requests |-> run.requests, outcome |-> run.outcome]

OllamaEmbedBatch ==
    /\ \E texts \in Batches, failing \in SUBSET (1..MaxBatch) :
          /\ failing \subseteq 1..Len(texts)
          /\ embed_call' = EmbedCall("ollama", texts, failing,
                                     OllamaLoop(texts, failing, 1, <<>>, <<>>))
    /\ UNCHANGED <<chunkVars, chatVars, documents, request>>

OpenAIEmbedBatch ==
    /\ \E texts \in Batches, failing \in {{}, {1}} :
          embed_call' = EmbedCall("openai", texts, failing,
                                  OpenAIBatch(texts, failing))
    /\ UNCHANGED <<chunkVars, chatVars, documents, request>>

EmbedInit == StoreInit /\ ChunkIdle
EmbedNext == OllamaEmbedBatch \/ OpenAIEmbedBatch
EmbedSpec == EmbedInit /\ [][EmbedNext]_vars

-----------------------------------------------------------------------------
(* The request handlers of app.py that write the Document table and the    *)
(* index: upload_document, ingest_url, delete_document.  The requests are  *)
(* served one at a time.  A `session.commit()` that follows a store call   *)
(* may fail like the store call itself; the commit that creates a record   *)
(* and the delete that takes one back are taken to succeed.                *)

\* bound: the linked PDFs of one page
MaxPdfs == 1

\* line 185: `for pdf_url in pdf_links[:3]`
PdfLimit == 3

\* the doc_id of a request that created or addressed no Document record
NoRecord == 0

\* the ids the database may give a new Document record: any id no record
\* has.  The model stops short of an id that still has chunks indexed.
NewIds ==
    {d \in DocIds : d \notin documents /\ MatchingIds(collection, d) = <<>>}

\* ingest_url has indexed its page and has linked PDFs left to go through
Serving == request.status = "running"

\* what a handler leaves of the last request
Served(op, part, doc_id, failed_step, status, pdfs) ==
    [op |-> op, part |-> part, doc_id |-> doc_id,
     failed_step |-> failed_step, status |-> status, pdfs |-> pdfs]

\* a handler step that calls nothing on the store
NoStoreCall ==
    /\ store_call' = NoCall
    /\ ForgetChat
    /\ UNCHANGED <<collection, ledger, base, threads, chunkVars>>

\* app.py 126-127: `session.delete(doc); session.commit()`
WithoutRecord(records, doc_id) == records \ {doc_id}

\* app.py 71-128: the record is committed (93-99); then, inside one try,
\* the file is processed, its chunks are added, and the record is updated
\* and committed again; any exception of these deletes the record and is
\* answered with status 500
upload_document ==
    /\ ~Serving
    /\ \E doc_id \in NewIds, texts \in ChunkLists :
          LET created == documents \cup {doc_id}
              served(step, status) ==
                  Served("upload_document", "file", doc_id, step, status, 0)
          IN  \/ /\ NoStoreCall
                 /\ documents' = WithoutRecord(created, doc_id)
                 /\ request' = served("process", "failed")
              \/ /\ AddDocuments(texts, TextMetadatas(texts, "notes.txt"),
                                 doc_id)
                 /\ \/ /\ store_call'.outcome.status = "raised"
                       /\ documents' = WithoutRecord(created, doc_id)
                       /\ request' = served("add_documents", "failed")
                    \/ /\ store_call'.outcome.status = "returned"
                       /\ \/ /\ documents' = WithoutRecord(created, doc_id)
                             /\ request' = served("session.commit", "failed")
                          \/ /\ documents' = created
                             /\ request' = served("", "ok")
    /\ UNCHANGED embed_call

\* app.py 130-170 and 292-300: the page is fetched and chunked (144) before
\* its record is committed (149-156); then its chunks are added (161) and
\* the record is updated (165-166).  An exception is answered with status
\* 504, 502 or 500 and nothing else is done.  With linked PDFs to go
\* through the request goes on.
ingest_url ==
    /\ ~Serving
    /\ \E doc_id \in NewIds, texts \in ChunkLists,
          pdfs \in 0..Min(MaxPdfs, PdfLimit) :
          LET created == documents \cup {doc_id}
              served(id, step, status, left) ==
                  Served("ingest_url", "page", id, step, status, left)
          IN  \/ /\ NoStoreCall
                 /\ documents' = documents
                 /\ request' = served(NoRecord, "process_url", "failed", 0)
              \/ /\ AddDocuments(texts, TextMetadatas(texts, "page"), doc_id)
                 /\ documents' = created
                 /\ \/ /\ store_call'.outcome.status = "raised"
                       /\ request' = served(doc_id, "add_documents",
                                            "failed", 0)
                    \/ /\ store_call'.outcome.status = "returned"
                       /\ \/ request' = served(doc_id, "session.commit",
                                               "failed", 0)
                          \/ request' = served(doc_id, "",
                                 IF pdfs = 0 THEN "ok" ELSE "running", pdfs)
    /\ UNCHANGED embed_call

\* app.py 184-290: one linked PDF.  It is skipped (download failed, too
\* large, not a PDF, no chunks: 186-239), or its record is committed
\* (243-250), its chunks are added (253-255) and the record is updated
\* (257-258).  An exception is logged (271-279) and the loop goes on; the
\* request is answered with status 200 after the last PDF.
ingest_url_pdf ==
    /\ Serving
    /\ LET left == request.pdfs - 1
           served(id, step) ==
               Served("ingest_url", "pdf", id, step,
                      IF left = 0 THEN "ok" ELSE "running", left)
       IN  \/ /\ NoStoreCall
              /\ documents' = documents
              /\ request' = served(NoRecord, "")
           \/ \E doc_id \in NewIds, texts \in ChunkLists :
                 /\ AddDocuments(texts, TextMetadatas(texts, "linked.pdf"),
                                 doc_id)
                 /\ documents' = documents \cup {doc_id}
                 /\ \/ /\ store_call'.outcome.status = "raised"
                       /\ request' = served(doc_id, "add_documents")
                    \/ /\ store_call'.outcome.status = "returned"
                       /\ \/ request' = served(doc_id, "session.commit")
                          \/ request' = served(doc_id, "")
    /\ UNCHANGED embed_call

\* app.py 453-470: status 404 without a record; else the chunks are deleted
\* from the index (464), then the record from the table (467-468)
delete_document ==
    /\ ~Serving
    /\ \E doc_id \in DocIds :
          LET served(step, status) ==
                  Served("delete_document", "", doc_id, step, status, 0)
          IN  IF doc_id \notin documents
              THEN /\ NoStoreCall
                   /\ documents' = documents
                   /\ request' = served("session.get", "failed")
              ELSE /\ DeleteDocument(doc_id)
                   /\ \/ /\ store_call'.outcome.status = "raised"
                         /\ documents' = documents
                         /\ request' = served("delete_document", "failed")
                      \/ /\ store_call'.outcome.status = "returned"
                         /\ \/ /\ documents' = documents
                               /\ request' = served("session.commit",
                                                    "failed")
                            \/ /\ documents' = WithoutRecord(documents, doc_id)
                               /\ request' = served("", "ok")
    /\ UNCHANGED embed_call

AppInit == StoreInit /\ ChunkIdle
AppNext == upload_document \/ ingest_url \/ ingest_url_pdf \/ delete_document
AppSpec == AppInit /\ [][AppNext]_vars

-----------------------------------------------------------------------------
(* Properties of chat_with_context                                         *)

\* chat_with_context has been called
ChatCalled == chat_args # NoCall

\* ---- C9 ----
\* C9: a chat_with_context call with use_context = false makes no call on the
\* vector store, makes one generate call with the message and no context,
\* and what it returns has an empty sources list.
C9_NoSearchWithoutContext ==
    (ChatCalled /\ ~chat_args.use_context) =>
        /\ \A i \in 1..Len(calls) : calls[i].op # "search"
        /\ Len(calls) = 1
        /\ calls[1].op = "generate"
        /\ calls[1].prompt = chat_args.message
        /\ calls[1].context = None
        /\ (chat_result.status = "returned" => chat_result.sources = <<>>)

\* a call with use_context = false returned while the index held entries
C9_Witness ==
    /\ ChatCalled /\ ~chat_args.use_context
    /\ chat_index # <<>>
    /\ chat_result.status = "returned"

\* ---- C10 ----
\* C10: a chat_with_context call with use_context = true over an empty index
\* gets the empty result from search unless a provider fails; it then calls
\* generate with the message and no context, as without use_context, and
\* returns the generated response with an empty sources list.
C10_EmptyIndexFallsBack ==
    (ChatCalled /\ chat_args.use_context /\ chat_index = <<>>) =>
        /\ calls[1].op = "search"
        /\ calls[1].outcome \in {Raised, Return(<<>>)}
        /\ calls[1].outcome = Return(<<>>) =>
              /\ Len(calls) = 2
              /\ calls[2].op = "generate"
              /\ calls[2].prompt = chat_args.message
              /\ calls[2].context = None
              /\ calls[2].outcome.status = "returned" =>
                    chat_result = [status |-> "returned",
                                   response |-> calls[2].outcome.value,
                                   sources |-> <<>>]

\* a call with use_context = true over the empty index has returned
C10_Witness ==
    /\ ChatCalled /\ chat_args.use_context
    /\ chat_index = <<>>
    /\ chat_result.status = "returned"

\* ---- C11 ----
\* the results the search of the last chat_with_context call returned
ChatFound ==
    IF ChatCalled /\ calls # <<>> /\ calls[1].op = "search"
          /\ calls[1].outcome.status = "returned"
    THEN calls[1].outcome.value
    ELSE <<>>

\* the call went on to generate with a context string
ChatContext == calls[2].context[1]

\* the numeral of a rank below 10
Numeral(i) == <<"0", "1", "2", "3", "4", "5", "6", "7", "8", "9">>[i + 1]

\* the length of the fragment of rank i: "[", numeral, "]", " ", content
FragmentLen(i) == 4 + Len(ChatFound[i].content)

\* the offset in the context string at which the fragment of rank i starts:
\* after the fragments before it and a blank line ("\n\n") after each
RECURSIVE FragmentAt(_)
FragmentAt(i) ==
    IF i = 1 THEN 0 ELSE FragmentAt(i - 1) + FragmentLen(i - 1) + 2

\* C11: when the search of a chat_with_context call returns n >= 1 results,
\* the context handed to generate is made of n fragments in rank order, the
\* i-th being "[i] " followed by the content of the i-th result, with a
\* blank line between two fragments and nothing else; and a call that
\* returns gives n sources, the i-th with the metadata and the score of the
\* i-th result.
C11_ContextAndSourcesInRankOrder ==
    LET n == Len(ChatFound)
    IN  n >= 1 =>
          /\ Len(calls) = 2
          /\ calls[2].op = "generate"
          /\ calls[2].context # None
          /\ Len(ChatContext) = FragmentAt(n) + FragmentLen(n)
          /\ \A i \in 1..n :
                LET at == FragmentAt(i)
                    content == ChatFound[i].content
                IN  /\ ChatContext[at + 1] = "["
                    /\ ChatContext[at + 2] = Numeral(i)
                    /\ ChatContext[at + 3] = "]"
                    /\ ChatContext[at + 4] = " "
                    /\ \A j \in 1..Len(content) :
                          ChatContext[at + 4 + j] = content[j]
                    /\ i < n =>
                          /\ ChatContext[at + FragmentLen(i) + 1] = "\n"
                          /\ ChatContext[at + FragmentLen(i) + 2] = "\n"
          /\ chat_result.status = "returned" =>
                /\ Len(chat_result.sources) = n
                /\ \A i \in 1..n :
                      /\ chat_result.sources[i].metadata = ChatFound[i].metadata
                      /\ chat_result.sources[i].score = ChatFound[i].score

\* a call returned whose search gave two results of different content,
\* document and score
C11_Witness ==
    /\ Len(ChatFound) >= 2
    /\ chat_result.status = "returned"
    /\ ChatFound[1].content # ChatFound[2].content
    /\ ChatFound[1].metadata # ChatFound[2].metadata
    /\ ChatFound[1].score # ChatFound[2].score

\* ---- C12 ----
\* C12: for every result the search of a chat_with_context call returned,
\* the content of its source entry is the first 200 characters of the
\* content of the result (all of it if it is shorter) followed by "...", so
\* at most 203 characters, while the context handed to generate holds the
\* whole content of the result.
C12_SourcesTruncatedContextWhole ==
    \A i \in 1..Len(ChatFound) :
        LET content == ChatFound[i].content
            kept == IF Len(content) < 200 THEN Len(content) ELSE 200
        IN  /\ \A j \in 1..Len(content) :
                  ChatContext[FragmentAt(i) + 4 + j] = content[j]
            /\ chat_result.status = "returned" =>
                  LET shown == chat_result.sources[i].content
                  IN  /\ Len(shown) = kept + 3
                      /\ Len(shown) <= 203
                      /\ \A j \in 1..kept : shown[j] = content[j]
                      /\ \A j \in 1..3 : shown[kept + j] = "."

\* a call returned whose search gave a result longer than 200 characters
C12_Witness ==
    /\ chat_result.status = "returned"
    /\ \E i \in 1..Len(ChatFound) : Len(ChatFound[i].content) > 200

\* ---- C13 ----
\* the generate calls of the last chat_with_context call
GenerateCalls == {i \in 1..Len(calls) : calls[i].op = "generate"}

\* C13: a chat_with_context call calls generate at most once; when that
\* call fails, chat_with_context fails with the same error and returns no
\* result; when it answers, the answer is the response returned.
C13_GenerateOnceNoRetry ==
    ChatCalled =>
        /\ Cardinality(GenerateCalls) <= 1
        /\ \A i \in GenerateCalls :
              /\ calls[i].outcome.status = "raised" =>
                    /\ chat_result.status = "raised"
                    /\ chat_result.error = calls[i].outcome.error
              /\ calls[i].outcome.status = "returned" =>
                    /\ chat_result.status = "returned"
                    /\ chat_result.response = calls[i].outcome.value

\* generate failed in a call that had searched and found results
C13_Witness ==
    /\ Len(ChatFound) >= 1
    /\ calls[2].outcome.status = "raised"
    /\ chat_result.status = "raised"

-----------------------------------------------------------------------------
(* Properties of the vector store                                          *)

\* the last call made directly on the store was op
StoreCalled(op) == store_call # NoCall /\ store_call.op = op

\* ---- C14 ----
\* C14: a step in which add_documents(texts, metadatas, d) succeeds with n
\* texts leaves the entries there were as they are and appends n entries
\* with ids not in the index before, the i-th (from 0) with the id made of
\* the numerals of d, "_" and the numeral of i, the text texts[i], its
\* embedding, and metadatas[i] with the one more key document_id = d; and it
\* returns n.
C14_AddStoresAll ==
    [][(StoreCalled("add_documents")' /\ store_call'.outcome.status = "returned") =>
          LET texts == store_call'.texts
              metadatas == store_call'.metadatas
              d == store_call'.doc_id
              n == Len(texts)
              old == Len(collection)
          IN  /\ store_call'.outcome.value = n
              /\ Len(collection') = old + n
              /\ \A k \in 1..old : collection'[k] = collection[k]
              /\ \A i \in 0..(n - 1) :
                    LET e == collection'[old + i + 1]
                    IN  /\ e.id = <<Numeral(d), "_", Numeral(i)>>
                        /\ \A k \in 1..old : collection[k].id # e.id
                        /\ e.document = texts[i + 1]
                        /\ e.embedding = Embed(texts[i + 1])
                        /\ DOMAIN e.metadata =
                              DOMAIN metadatas[i + 1] \cup {"document_id"}
                        /\ e.metadata.document_id = d
                        /\ \A key \in DOMAIN metadatas[i + 1] :
                              e.metadata[key] = metadatas[i + 1][key]
      ]_vars

\* add_documents has stored three chunks next to those of another document
C14_Witness ==
    /\ StoreCalled("add_documents")
    /\ store_call.outcome = Return(3)
    /\ Len(collection) > 3

\* ---- C15 ----
\* C15: a step in which embed_text fails on one of the texts of
\* add_documents ends in an error and leaves the index as it was, its
\* number of entries included.
C15_EmbedFailureStoresNothing ==
    [][(StoreCalled("add_documents")' /\ store_call'.failed_at > 0) =>
          /\ store_call'.outcome.status = "raised"
          /\ collection' = collection
          /\ Len(collection') = Len(collection)
      ]_vars

\* embedding failed on the last of three texts, the index holding another
\* document
C15_Witness ==
    /\ StoreCalled("add_documents")
    /\ Len(store_call.texts) = 3
    /\ store_call.failed_at = 3
    /\ collection # <<>>

\* ---- C16 ----
\* the step completes a delete_document(d) that raised nothing, either as
\* the one request being served or as one of those served side by side
DeleteCompletes(d) ==
    \/ /\ StoreCalled("delete_document")'
       /\ store_call'.doc_id = d
       /\ store_call'.outcome.status = "returned"
    \/ \E t \in Threads :
          /\ threads[t].pc # "done"
          /\ threads'[t].pc = "done"
          /\ threads'[t].call.op = "delete_document"
          /\ threads'[t].call.doc_id = d
          /\ threads'[t].outcome.status = "returned"

\* the entries of documents other than d, in their order
OthersThan(entries, d) ==
    SelectSeq(entries, LAMBDA e : e.metadata.document_id # d)

\* C16: when delete_document(d) completes, the index holds the entries of
\* the other documents as they were and no entry of d; a delete_document(d)
\* that finds no entry of d changes nothing and raises nothing of its own
\* (only a failure of collection.get can end it in an error).
C16_DeleteRemovesExactlyMatches ==
    [][/\ \A d \in DocIds :
             DeleteCompletes(d) => collection' = OthersThan(collection, d)
       /\ (StoreCalled("delete_document")'
             /\ MatchingIds(collection, store_call'.doc_id) = <<>>) =>
                /\ collection' = collection
                /\ store_call'.outcome.status = "raised" =>
                      store_call'.failed_in = "collection.get"
      ]_vars

\* ---- C17 ----
\* C17: while the last completed call on document d is a delete_document(d)
\* (no add_documents for d has come after it), no search, whatever its query
\* and its top_k, returns a result with document_id = d.
C17_NoHitsAfterDelete ==
    \A query \in Messages, top_k \in 1..MaxTopK :
        \A outcome \in SearchOutcomes(query, top_k) :
            outcome.status = "returned" =>
                \A i \in 1..Len(outcome.value) :
                    outcome.value[i].metadata.document_id \notin Gone

\* ---- C18 ----
\* the number of entries in the index, counted by their ids
EntryCount(entries) == Cardinality({entries[i].id : i \in 1..Len(entries)})

\* C18: total_chunks as get_stats returns it is the number of entries in the
\* index; a step in which add_documents succeeds with n chunks, under a
\* document id none of whose chunks were indexed, raises that number by n;
\* and a step in which delete_document(d) completes, the last completed
\* call on d being a successful add_documents of n chunks, lowers it by n.
C18_TotalChunksTracksIndex ==
    /\ []((StoreCalled("get_stats") /\ store_call.outcome.status = "returned") =>
            store_call.outcome.value.total_chunks = EntryCount(collection))
    /\ [][(StoreCalled("add_documents")' /\ store_call'.outcome.status = "returned") =>
             EntryCount(collection') =
                 EntryCount(collection) + Len(store_call'.texts)]_vars
    /\ [][(/\ StoreCalled("delete_document")'
           /\ store_call'.outcome.status = "returned"
           /\ ledger[store_call'.doc_id].status = "added") =>
             EntryCount(collection') =
                 EntryCount(collection) - ledger[store_call'.doc_id].n]_vars

\* the example: the three chunks "7_0", "7_1", "7_2" of document 7 have
\* been deleted from an index that holds another document
C18_Witness ==
    /\ StoreCalled("delete_document")
    /\ store_call.doc_id = 7
    /\ store_call.ids = << <<"7", "_", "0">>, <<"7", "_", "1">>, <<"7", "_", "2">> >>
    /\ store_call.outcome.status = "returned"
    /\ EntryCount(collection) > 0

\* ---- C19 ----
\* C19: the results search(query, top_k) returns are at most top_k, each of
\* them the text and the metadata of an entry of the index with the score
\* 1 - distance (100 - distance, in hundredths) of that entry from the
\* query, and no result has a higher score than the one before it; over
\* the empty index a search that raises nothing returns no result.
C19_SearchResults ==
    (StoreCalled("search") /\ store_call.outcome.status = "returned") =>
        LET results == store_call.outcome.value
            q == Embed(store_call.query)
        IN  /\ Len(results) <= store_call.top_k
            /\ \A i \in 1..Len(results) :
                  \E k \in 1..Len(collection) :
                      /\ results[i].content = collection[k].document
                      /\ results[i].metadata = collection[k].metadata
                      /\ results[i].score =
                            100 - Distance(q, collection[k].embedding)
            /\ \A i \in 1..(Len(results) - 1) :
                  results[i].score >= results[i + 1].score
            /\ collection = <<>> => results = <<>>

\* a search returned the top_k = 2 nearest of more than two entries, the
\* first nearer than the second
C19_Witness ==
    /\ StoreCalled("search")
    /\ store_call.outcome.status = "returned"
    /\ store_call.top_k = 2
    /\ Len(collection) > 2
    /\ Len(store_call.outcome.value) = 2
    /\ store_call.outcome.value[1].score > store_call.outcome.value[2].score

\* ---- C20 ----
\* no request is inside a call
Quiescent == \A t \in Threads : threads[t].pc \in {"idle", "done"}

\* the requests whose call has completed without an error
Completed ==
    {t \in Threads : threads[t].pc = "done"
                        /\ threads[t].outcome.status = "returned"}

\* the call of request t can be made on the index: documents get the id of
\* no document whose chunks are indexed
CanRun(entries, t) ==
    threads[t].call.op = "add_documents" =>
        MatchingIds(entries, threads[t].call.doc_id) = <<>>

\* the index after the call of request t, made as one atomic call
AfterCall(entries, t) ==
    LET call == threads[t].call
    IN  IF call.op = "add_documents"
        THEN entries \o NewEntries(call.texts, call.metadatas, call.doc_id)
        ELSE IF call.op = "delete_document"
        THEN OthersThan(entries, call.doc_id)
        ELSE entries

\* the indexes the calls of the requests in rest give when made one after
\* the other, in any order, on the index entries
RECURSIVE SerialFinals(_, _)
SerialFinals(entries, rest) ==
    IF rest = {} THEN {entries}
    ELSE UNION {SerialFinals(AfterCall(entries, t), rest \ {t}) :
                   t \in {u \in rest : CanRun(entries, u)}}

\* C20: once every call made has completed, the content of the index is the
\* one the completed calls give when made one at a time in some order.
C20_SerialOrderExists ==
    Quiescent => collection \in SerialFinals(base, Completed)

\* ---- C23 ----
\* no two entries of the index share an id
UniqueIds(entries) ==
    \A i, j \in 1..Len(entries) : entries[i].id = entries[j].id => i = j

\* C23: after any sequence of add_documents calls (none under an id that
\* has chunks indexed) and of delete_document calls, no two entries of the
\* index share an id; and every entry stays in the index with its id, text
\* and metadata as they are through every step that is not a completed
\* delete of its own document: adds and deletes of other documents, failed
\* calls, searches and chats neither renumber nor alter it.
C23_IdsUniqueAndStable ==
    /\ [](UniqueIds(collection))
    /\ [][\A i \in 1..Len(collection) :
             \/ DeleteCompletes(collection[i].metadata.document_id)
             \/ \E j \in 1..Len(collection') :
                   /\ collection'[j].id = collection[i].id
                   /\ collection'[j].document = collection[i].document
                   /\ collection'[j].metadata = collection[i].metadata]_vars

\* a delete of one document has completed with another document's chunks in
\* the index, added after the deleted one's
C23_Witness ==
    /\ StoreCalled("delete_document")
    /\ store_call.outcome.status = "returned"
    /\ store_call.ids # <<>>
    /\ \E d \in DocIds \ {store_call.doc_id} :
          /\ ledger[d] = Added(Len(collection))
          /\ Len(collection) > 1

-----------------------------------------------------------------------------
(* Properties of the request handlers                                      *)

\* the last request created a Document record and add_documents then failed
AddFailedAfterCommit ==
    /\ request.status # "none"
    /\ request.failed_step = "add_documents"

\* C21: on every ingest path (upload_document, the page of ingest_url, each
\* linked PDF of ingest_url), when add_documents fails after the Document
\* record was committed, that record is deleted: no record without indexed
\* chunks is left behind
C21_FailedAddDeletesRecord ==
    AddFailedAfterCommit => request.doc_id \notin documents

\* C22: after any sequence of upload_document, ingest_url and
\* delete_document requests, failing ones included, the document_id of
\* every index entry is the id of an existing Document record
C22_EntriesHaveRecords ==
    \A i \in 1..Len(collection) :
        collection[i].metadata.document_id \in documents

-----------------------------------------------------------------------------
(* Properties of embed_batch                                               *)

\* the position of the first request that fails
FirstFailing(failing) == CHOOSE i \in failing : \A j \in failing : i <= j

\* C24: embed_batch(texts) of either provider, when it returns, returns as
\* many vectors as there are texts, the i-th the embedding of texts[i].
\* The Ollama provider sends one embed_text request per text, in input
\* order; at the first request that fails it sends no further request and
\* raises, returning no vector; with no failing request it returns.
C24_EmbedBatchInOrder ==
    embed_call # NoCall =>
        LET texts == embed_call.texts
            sent == embed_call.requests
            outcome == embed_call.outcome
        IN  /\ outcome.status \in {"returned", "raised"}
            /\ outcome.status = "returned" =>
                  /\ Len(outcome.value) = Len(texts)
                  /\ \A i \in 1..Len(texts) :
                        outcome.value[i] = Embed(texts[i])
            /\ embed_call.provider = "ollama" =>
                  /\ Len(sent) <= Len(texts)
                  /\ \A i \in 1..Len(sent) : sent[i] = texts[i]
                  /\ IF embed_call.failing = {}
                     THEN /\ outcome.status = "returned"
                          /\ Len(sent) = Len(texts)
                     ELSE /\ outcome = Raised
                          /\ Len(sent) = FirstFailing(embed_call.failing)

\* the Ollama provider was given three texts and its second request failed,
\* with the third one bound to fail too
C24_Witness ==
    /\ embed_call # NoCall
    /\ embed_call.provider = "ollama"
    /\ Len(embed_call.texts) = 3
    /\ embed_call.failing = {2, 3}
    /\ Len(embed_call.requests) = 2
    /\ embed_call.outcome = Raised

-----------------------------------------------------------------------------
(* Propagation of failures                                                 *)

\* a call made by chat_with_context whose backend failed
BackendFailed(call) ==
    IF call.op = "search" THEN call.backend = "raised"
    ELSE call.outcome.status = "raised"

\* C25: a call on the vector store (add_documents, search, delete_document,
\* get_stats) whose embedding or storage call failed ends in an error, never
\* in a return value; and chat_with_context ends in an error at the first of
\* its calls that fails: after a failed search it makes no generate call and
\* returns nothing, and a failed generate call is its last one.
C25_FailuresPropagate ==
    /\ store_call # NoCall =>
          (store_call.backend = "raised" =>
              store_call.outcome.status = "raised")
    /\ \A i \in 1..Len(calls) :
          BackendFailed(calls[i]) =>
              /\ calls[i].outcome.status = "raised"
              /\ chat_result.status = "raised"
              /\ i = Len(calls)

\* chat_with_context searched the index of a document first and the search
\* failed
C25_Witness ==
    /\ ChatCalled
    /\ chat_args.use_context
    /\ chat_index # <<>>
    /\ calls[1].op = "search"
    /\ calls[1].backend = "raised"
    /\ chat_result = Raised

=============================================================================
